---- MODULE Spec2Model ----
(***************************************************************************)
(* The rotary dial of Harmony-Tensions-Web: the useRotary hook             *)
(* (src/hooks/useRotary.ts) as a state machine.                            *)
(*                                                                         *)
(* Angles.  The hook computes with floating-point degrees.  Here every     *)
(* angle is an integer number of degrees: the section counts are drawn     *)
(* from the divisors of 360 and the pointer bearings from whole degrees,   *)
(* so every value the hook computes is exact.  Floating-point rounding     *)
(* error is not modelled.                                                  *)
(*                                                                         *)
(* React.  rotation and isDragging are React state, startAngleRef and      *)
(* currentRotationRef are refs.  handleMove and handleEnd are closures     *)
(* over the isDragging of the render that created them; the window         *)
(* listeners registered by the effect of a render call the closures of     *)
(* that render, so each registered listener set is modelled by the         *)
(* isDragging its closures captured.  A state update made in a discrete    *)
(* event (mousedown, touchstart, mouseup, touchend) is rendered and its    *)
(* effects are flushed before the next event is dispatched, so the start   *)
(* and end actions include that commit; every other re-render (the         *)
(* deferred render after a move, a re-render of the host) is the action    *)
(* Rerender.  SpecDeferred adds the end event that is dispatched before    *)
(* that commit: two events dispatched one after the other in one task, or  *)
(* a React that defers the effect cleanup.                                 *)
(***************************************************************************)
EXTENDS Integers, Sequences, FiniteSets, TLC

\* The largest rotation, in full turns, a move may produce in the model.
MaxTurns == 2

\* The section counts, pointer bearings (degrees) and initial rotations
\* (degrees) the model draws its inputs from.
SectionCounts == {1, 5, 12}
PointerDegrees == {-165, -15, 0, 44}
InitialDegrees == {0, 44}

\* Section counts the options type admits (any number) that are no valid
\* configuration.  A count of 0 makes degreesPerSection Infinity and the
\* snapped rotation NaN, which the integer angles here cannot hold, so the
\* invalid counts are drawn from the negative divisors of 360.
InvalidSectionCounts == {-12}

VARIABLES
    sections,            \* option sections
    onValueChange,       \* TRUE iff the option onValueChange is given
    rotation,            \* useState(initialRotation)
    isDragging,          \* useState(false)
    startAngleRef,       \* useRef(0)
    currentRotationRef,  \* useRef(initialRotation)
    listeners,           \* the listener sets registered on window, each the
                         \* isDragging captured by its handleMove/handleEnd
    mounted,             \* the component is mounted
    moved,               \* a move has set the rotation in the current drag
    event,               \* the last event: what it was, the state it met
                         \* and the indices it passed to onValueChange
    hosted,              \* TRUE iff the hook is the one HarmonyWheel calls
    activeNoteIndex,     \* HarmonyWheel: useState(0)
    maskIndex            \* HarmonyWheel: useState(0)

vars == <<sections, onValueChange, rotation, isDragging, startAngleRef,
          currentRotationRef, listeners, mounted, moved, event, hosted,
          activeNoteIndex, maskIndex>>

\* The state of the HarmonyWheel component.
hostVars == <<hosted, activeNoteIndex, maskIndex>>

Abs(x) == IF x < 0 THEN -x ELSE x

\* JavaScript a % b for b # 0: the remainder has the sign of a and is
\* smaller than b in magnitude.
JsMod(a, b) == IF a >= 0 THEN a % Abs(b) ELSE -((-a) % Abs(b))

\* Math.round(num / den) for den # 0: the nearest integer, a tie going to
\* the larger one.
MathRound(num, den) == (2 * num + den) \div (2 * den)

\* The pointer inputs: a bearing from the centre of the container in the
\* range of Math.atan2, or an event that finds containerRef.current null.
Pointers ==
    [attached : {TRUE}, degrees : PointerDegrees]
        \cup {[attached |-> FALSE, degrees |-> 0]}

\* Mutant of calculateAngleFromCenter: a default that is not 0.
calculateAngleFromCenterQuarter(p) ==
    IF ~p.attached THEN 90 ELSE p.degrees

calculateAngleFromCenter(p) ==
    IF ~p.attached THEN 0 ELSE p.degrees

degreesPerSection == 360 \div sections

\* Mutants of snappedRotation: Math.floor in place of Math.round, and a
\* rounding that always moves on to the next section.
snappedRotationFloor(r) == (r \div degreesPerSection) * degreesPerSection

snappedRotationNext(r) == ((r \div degreesPerSection) + 1) * degreesPerSection

\* Mutants of snappedRotation: the snapped rotation reduced into (-360, 360),
\* and no snap.
snappedRotationWrapped(r) ==
    JsMod(MathRound(r, degreesPerSection) * degreesPerSection, 360)

snappedRotationNone(r) == r

\* Mutant of snappedRotation: a tie rounded away from zero.
snappedRotationAwayFromZero(r) ==
    IF r >= 0
      THEN MathRound(r, degreesPerSection) * degreesPerSection
      ELSE -(MathRound(-r, degreesPerSection) * degreesPerSection)

snappedRotation(r) == MathRound(r, degreesPerSection) * degreesPerSection

normalizedRotation(s) == JsMod(JsMod(s, 360) + 360, 360)

\* Mutants of sectionIndex: the outer % sections dropped, and the offset
\* emitted without the inversion.
sectionIndexNoWrap(s) ==
    sections - JsMod(MathRound(normalizedRotation(s), degreesPerSection), sections)

sectionIndexDirect(s) ==
    JsMod(MathRound(normalizedRotation(s), degreesPerSection), sections)

\* Mutant of sectionIndex: the magnitude of the rotation in place of its
\* normalisation into [0, 360).
sectionIndexMirrored(s) ==
    JsMod(sections - JsMod(MathRound(Abs(s), degreesPerSection), sections),
          sections)

sectionIndex(s) ==
    JsMod(sections
            - JsMod(MathRound(normalizedRotation(s), degreesPerSection), sections),
          sections)

\* Mutant of EffectCleanup: the effect returns no cleanup.
EffectCleanupLeak(ls) == ls

\* The cleanup of the effect: the listener set it registered is removed.
EffectCleanup(ls) ==
    IF ls = <<>> THEN ls ELSE SubSeq(ls, 1, Len(ls) - 1)

\* Mutant of EffectSetup: the effect never registers the listeners.
EffectSetupNever(ls, dragging) == ls

\* The body of the effect in a render whose isDragging is dragging.
EffectSetup(ls, dragging) ==
    IF ~dragging THEN ls ELSE Append(ls, dragging)

\* Mutant of Commit: the new effect runs without the previous cleanup.
CommitSetupOnly(ls, dragging) == EffectSetup(ls, dragging)

\* A render commits: the previous effect is cleaned up, the new one runs.
Commit(ls, dragging) == EffectSetup(EffectCleanup(ls), dragging)

\* The registered listener sets whose closures saw isDragging = true: the
\* only ones whose handleMove / handleEnd pass their guard.
LiveListeners == {i \in DOMAIN listeners : listeners[i]}

\* The widget is Engaged: mounted, with isDragging true.
Engaged == mounted /\ isDragging

\* Mutant of onValueChangeCalls: the call is skipped for a falsy index.
onValueChangeCallsTruthy(snapped) ==
    IF onValueChange /\ sectionIndex(snapped) # 0
      THEN [i \in 1..Cardinality(LiveListeners) |-> sectionIndex(snapped)]
      ELSE <<>>

\* The calls of onValueChange one end event makes: one for each handleEnd
\* that passes its guard, when the option is given.
onValueChangeCalls(snapped) ==
    IF onValueChange
      THEN [i \in 1..Cardinality(LiveListeners) |-> sectionIndex(snapped)]
      ELSE <<>>

\* The onValueChange HarmonyWheel passes to the hook, applied to the calls
\* of one end event: each call sets activeNoteIndex to its argument.
setActiveNoteIndex(calls) ==
    IF hosted /\ calls # <<>> THEN calls[Len(calls)] ELSE activeNoteIndex

Seen(kind, p, calls) ==
    [kind |-> kind, attached |-> p.attached,
     angle |-> calculateAngleFromCenter(p), from |-> currentRotationRef, engaged |-> Engaged, moved |-> moved,
     calls |-> calls]

NoPointer == [attached |-> FALSE, degrees |-> 0]

\* useRotary called with a section count from counts.
Constructed(counts) ==
    /\ sections \in counts
    /\ onValueChange \in BOOLEAN
    /\ \E d \in InitialDegrees :
         /\ rotation = d
         /\ currentRotationRef = d
    /\ isDragging = FALSE
    /\ startAngleRef = 0
    /\ listeners = <<>>
    /\ mounted = TRUE
    /\ moved = FALSE
    /\ event = [kind |-> "init", attached |-> FALSE, angle |-> 0, from |-> rotation,
                engaged |-> FALSE, moved |-> FALSE, calls |-> <<>>]
    /\ hosted = FALSE
    /\ activeNoteIndex = 0
    /\ maskIndex = 0

Init == Constructed(SectionCounts)

\* useRotary checks nothing about its options: it can be constructed with
\* an invalid section count as well.
InitUnchecked == Constructed(InvalidSectionCounts)

\* Mutants of handleStart: the pointer angle stored without the offset of
\* the current rotation, and the listeners added by the handler itself.
handleStartNoOffset(p) ==
    /\ mounted
    /\ startAngleRef' = calculateAngleFromCenter(p)
    /\ isDragging' = TRUE
    /\ listeners' = IF isDragging THEN listeners ELSE Commit(listeners, TRUE)
    /\ moved' = FALSE
    /\ event' = Seen("start", p, <<>>)
    /\ UNCHANGED <<sections, onValueChange, rotation, currentRotationRef, mounted>>
    /\ UNCHANGED hostVars

handleStartAddsListeners(p) ==
    /\ mounted
    /\ startAngleRef' = calculateAngleFromCenter(p) - currentRotationRef
    /\ isDragging' = TRUE
    /\ listeners' = EffectSetup(listeners, TRUE)
    /\ moved' = FALSE
    /\ event' = Seen("start", p, <<>>)
    /\ UNCHANGED <<sections, onValueChange, rotation, currentRotationRef, mounted>>
    /\ UNCHANGED hostVars

\* onMouseDown / onTouchStart on the container.
handleStart(p) ==
    /\ mounted
    /\ startAngleRef' = calculateAngleFromCenter(p) - currentRotationRef
    /\ isDragging' = TRUE
    /\ listeners' = IF isDragging THEN listeners ELSE Commit(listeners, TRUE)
    /\ moved' = FALSE
    /\ event' = Seen("start", p, <<>>)
    /\ UNCHANGED <<sections, onValueChange, rotation, currentRotationRef, mounted>>
    /\ UNCHANGED hostVars

\* Mutant of handleMove: the pointer's offset is added to the current
\* rotation.
handleMoveAccumulates(p) ==
    LET newRotation ==
            currentRotationRef + calculateAngleFromCenter(p) - startAngleRef
    IN  /\ event' = Seen("move", p, <<>>)
        /\ IF LiveListeners = {}
             THEN UNCHANGED <<rotation, currentRotationRef, moved>>
             ELSE /\ Abs(newRotation) <= MaxTurns * 360
                  /\ rotation' = newRotation
                  /\ currentRotationRef' = newRotation
                  /\ moved' = TRUE
        /\ UNCHANGED <<sections, onValueChange, isDragging, startAngleRef,
                       listeners, mounted>>
        /\ UNCHANGED hostVars

\* Mutant of handleMove: the state is set and the ref is left as it was.
handleMoveStateOnly(p) ==
    LET newRotation == calculateAngleFromCenter(p) - startAngleRef
    IN  /\ event' = Seen("move", p, <<>>)
        /\ IF LiveListeners = {}
             THEN UNCHANGED <<rotation, moved>>
             ELSE /\ Abs(newRotation) <= MaxTurns * 360
                  /\ rotation' = newRotation
                  /\ moved' = TRUE
        /\ UNCHANGED <<sections, onValueChange, isDragging, startAngleRef,
                       currentRotationRef, listeners, mounted>>
        /\ UNCHANGED hostVars

\* mousemove / touchmove on window.
handleMove(p) ==
    LET newRotation == calculateAngleFromCenter(p) - startAngleRef
    IN  /\ event' = Seen("move", p, <<>>)
        /\ IF LiveListeners = {}
             THEN UNCHANGED <<rotation, currentRotationRef, moved>>
             ELSE /\ Abs(newRotation) <= MaxTurns * 360
                  /\ rotation' = newRotation
                  /\ currentRotationRef' = newRotation
                  /\ moved' = TRUE
        /\ UNCHANGED <<sections, onValueChange, isDragging, startAngleRef,
                       listeners, mounted>>
        /\ UNCHANGED hostVars

\* mouseup / touchend on window.
handleEnd ==
    LET snapped == snappedRotation(currentRotationRef)
    IN  /\ event' = Seen("end", NoPointer, onValueChangeCalls(snapped))
        /\ IF LiveListeners = {}
             THEN UNCHANGED <<rotation, currentRotationRef, isDragging, listeners,
                              moved>>
             ELSE /\ isDragging' = FALSE
                  /\ moved' = FALSE
                  /\ rotation' = snapped
                  /\ currentRotationRef' = snapped
                  /\ listeners' = Commit(listeners, FALSE)
        /\ activeNoteIndex' = setActiveNoteIndex(onValueChangeCalls(snapped))
        /\ UNCHANGED <<sections, onValueChange, startAngleRef, mounted>>
        /\ UNCHANGED <<hosted, maskIndex>>

\* A re-render for any other reason: the effect runs again.
Rerender ==
    /\ mounted
    /\ listeners' = Commit(listeners, isDragging)
    /\ event' = Seen("rerender", NoPointer, <<>>)
    /\ UNCHANGED <<sections, onValueChange, rotation, isDragging, startAngleRef,
                   currentRotationRef, mounted, moved>>
    /\ UNCHANGED hostVars

\* The component is destroyed: the effect is cleaned up.
Unmount ==
    /\ mounted
    /\ mounted' = FALSE
    /\ listeners' = EffectCleanup(listeners)
    /\ event' = Seen("unmount", NoPointer, <<>>)
    /\ UNCHANGED <<sections, onValueChange, rotation, isDragging, startAngleRef,
                   currentRotationRef, moved>>
    /\ UNCHANGED hostVars

Next ==
    \/ \E p \in Pointers : handleStart(p)
    \/ \E p \in Pointers : handleMove(p)
    \/ handleEnd
    \/ Rerender
    \/ Unmount

Spec == Init /\ [][Next]_vars

\* The twelve-section wheel in which every drag is ended: the end event of
\* an engagement (mouseup, touchend) is delivered in the end.
FairInit == Constructed({12})

FairSpec == FairInit /\ [][Next]_vars /\ WF_vars(handleEnd)

\* mouseup / touchend on window, with the next event dispatched before React
\* has rendered the update and cleaned up the effect: the listeners of the
\* drag, closures over isDragging = true, are still registered.
handleEndBeforeCommit ==
    LET snapped == snappedRotation(currentRotationRef)
    IN  /\ LiveListeners # {}
        /\ event' = Seen("end", NoPointer, onValueChangeCalls(snapped))
        /\ isDragging' = FALSE
        /\ moved' = FALSE
        /\ rotation' = snapped
        /\ currentRotationRef' = snapped
        /\ activeNoteIndex' = setActiveNoteIndex(onValueChangeCalls(snapped))
        /\ UNCHANGED <<sections, onValueChange, startAngleRef, listeners, mounted>>
        /\ UNCHANGED <<hosted, maskIndex>>

NextDeferred ==
    \/ Next
    \/ handleEndBeforeCommit

SpecDeferred == FairInit /\ [][NextDeferred]_vars

\* HarmonyWheel: the twelve notes of the wheel and the number of masks.
NOTES == <<"C", "G", "D", "A", "E", "B", "F#", "Db", "Ab", "Eb", "Bb", "F">>

MASK_COUNT == 5

\* HarmonyWheel as first rendered: the hook with twelve sections, no initial
\* rotation and a callback that sets activeNoteIndex.
HarmonyWheel ==
    /\ sections = 12
    /\ onValueChange = TRUE
    /\ rotation = 0
    /\ currentRotationRef = 0
    /\ isDragging = FALSE
    /\ startAngleRef = 0
    /\ listeners = <<>>
    /\ mounted = TRUE
    /\ moved = FALSE
    /\ event = [kind |-> "init", attached |-> FALSE, angle |-> 0, from |-> 0,
                engaged |-> FALSE, moved |-> FALSE, calls |-> <<>>]
    /\ hosted = TRUE
    /\ activeNoteIndex = 0
    /\ maskIndex = 0

\* Mutant of prevMask: the index decremented without the offset MASK_COUNT.
prevMaskNoOffset(prev) == JsMod(prev - 1, MASK_COUNT)

\* The updaters of maskIndex.
nextMask(prev) == JsMod(prev + 1, MASK_COUNT)

prevMask(prev) == JsMod(prev - 1 + MASK_COUNT, MASK_COUNT)

\* WheelMask: the position in maskImages of the image shown for index.
currentImage(index) == JsMod(index, MASK_COUNT)

\* onNext / onPrev of the mask navigation controls.
goToNextMask ==
    /\ hosted /\ mounted
    /\ maskIndex' = nextMask(maskIndex)
    /\ event' = Seen("nextMask", NoPointer, <<>>)
    /\ UNCHANGED <<sections, onValueChange, rotation, isDragging, startAngleRef,
                   currentRotationRef, listeners, mounted, moved, hosted,
                   activeNoteIndex>>

goToPrevMask ==
    /\ hosted /\ mounted
    /\ maskIndex' = prevMask(maskIndex)
    /\ event' = Seen("prevMask", NoPointer, <<>>)
    /\ UNCHANGED <<sections, onValueChange, rotation, isDragging, startAngleRef,
                   currentRotationRef, listeners, mounted, moved, hosted,
                   activeNoteIndex>>

\* The pointer bearings the wheel is dragged to in HarmonyWheel.
HostPointers == {p \in Pointers : p.attached /\ p.degrees \in {0, 44}}

NextHost ==
    \/ \E p \in HostPointers : handleStart(p)
    \/ \E p \in HostPointers : handleMove(p)
    \/ handleEnd
    \/ Rerender
    \/ Unmount
    \/ goToNextMask
    \/ goToPrevMask

SpecHost == HarmonyWheel /\ [][NextHost]_vars

\* The hook constructed with an invalid section count.
SpecUnchecked == InitUnchecked /\ [][Next]_vars

TypeOK ==
    /\ sections \in SectionCounts
    /\ isDragging \in BOOLEAN
    /\ mounted \in BOOLEAN
    /\ rotation \in Int
    /\ currentRotationRef \in Int
    /\ startAngleRef \in Int
    /\ listeners \in Seq(BOOLEAN)
    /\ moved \in BOOLEAN
    /\ hosted \in BOOLEAN
    /\ activeNoteIndex \in 0..(Len(NOTES) - 1)
    /\ maskIndex \in 0..(MASK_COUNT - 1)

(***************************************************************************)
(* The claims.  Released is the state right after an end event that found  *)
(* the widget Engaged; SectionWidth is 360/n.                              *)
(***************************************************************************)
SectionWidth == 360 \div sections

Released == event.kind = "end" /\ event.engaged

\* C1: every index passed to onValueChange is an integer i with
\* 0 <= i < sections, whatever the rotation at release.
C1_EmittedIndexInRange ==
    \A i \in DOMAIN event.calls :
        event.calls[i] \in Int /\ 0 <= event.calls[i] /\ event.calls[i] < sections

\* C1 witness: an index was emitted for a negative rotation beyond a full turn.
C1_Witness ==
    Released /\ event.calls # <<>> /\ rotation < -360

\* C2: an end event met while Engaged with rotation r sets the rotation to
\* round(r / (360/n)) * (360/n) and isDragging to false; the result is a
\* multiple of 360/n at most half a section away from r.
C2_SnapToNearestSection ==
    Released =>
        LET r == event.from
            w == SectionWidth
        IN  /\ rotation = ((2 * r + w) \div (2 * w)) * w
            /\ currentRotationRef = rotation
            /\ ~isDragging
            /\ rotation % w = 0
            /\ 2 * Abs(rotation - r) <= w

\* C2 witness: a release between two sections, which moved the wheel down.
C2_Witness ==
    Released /\ event.from % SectionWidth # 0 /\ rotation < event.from

\* C3: the emitted index is (n - k) mod n with k = round(normalized / (360/n))
\* mod n and normalized the snapped rotation reduced into [0, 360); a snapped
\* rotation of j * (360/n) emits (-j) mod n.
C3_IndexIsComplement ==
    (Released /\ onValueChange) =>
        LET w == SectionWidth
            normalized == rotation % 360
            k == ((2 * normalized + w) \div (2 * w)) % sections
            j == rotation \div w
        IN  /\ event.calls = <<(sections - k) % sections>>
            /\ event.calls = <<(-j) % sections>>

\* C3 witness: a release at a negative snapped rotation emitting a non-zero index.
C3_Witness ==
    Released /\ rotation < 0 /\ event.calls # <<>> /\ event.calls[1] > 0

\* C4 as stated: a release that snaps to +360/n emits n - 1 and one that
\* snaps to -360/n emits 1; for n = 12, 44 snaps to 30 and emits 11, -44
\* snaps to -30 and emits 1.
C4_InversionLawAsStated ==
    (Released /\ onValueChange) =>
        /\ rotation = SectionWidth => event.calls = <<sections - 1>>
        /\ rotation = -SectionWidth => event.calls = <<1>>
        /\ (sections = 12 /\ event.from = 44) =>
               (rotation = 30 /\ event.calls = <<11>>)
        /\ (sections = 12 /\ event.from = -44) =>
               (rotation = -30 /\ event.calls = <<1>>)

\* C4 amended: a release that snaps to +360/n emits n - 1 and one that
\* snaps to -360/n emits 1 mod n (1 for n >= 2, 0 for n = 1); for n = 12,
\* 44 snaps to 30 and emits 11, -44 snaps to -30 and emits 1.
C4_InversionLaw ==
    (Released /\ onValueChange) =>
        /\ rotation = SectionWidth => event.calls = <<sections - 1>>
        /\ rotation = -SectionWidth => event.calls = <<1 % sections>>
        /\ (sections = 12 /\ event.from = 44) =>
               (rotation = 30 /\ event.calls = <<11>>)
        /\ (sections = 12 /\ event.from = -44) =>
               (rotation = -30 /\ event.calls = <<1>>)

\* C4 witness: on the 12-section wheel a drag that began with the pointer at
\* the wheel's own angle is released at 44, rests at 30 and emits 11.
C4_Witness ==
    /\ Released /\ sections = 12 /\ startAngleRef = 0
    /\ event.from = 44 /\ event.moved
    /\ rotation = 30 /\ event.calls = <<11>>

C8_SnapIdempotent ==
    (Released /\ event.from % SectionWidth = 0) =>
        (rotation = event.from /\ currentRotationRef = event.from)

\* C8 witness: a start directly followed by an end on a wheel resting on a
\* section other than 0.
C8_Witness ==
    /\ Released /\ ~event.moved
    /\ event.from % SectionWidth = 0 /\ event.from # 0
    /\ rotation = event.from

C11_InvalidSectionsRejected ==
    sections <= 0 =>
        /\ ~isDragging
        /\ event.kind \notin {"start", "end"}
        /\ event.calls = <<>>

\* The release of a wheel at rotation d: the section nearest to d and the
\* index emitted for it.
NearestSection(d) == ((2 * d + SectionWidth) \div (2 * SectionWidth)) * SectionWidth

IndexOf(d) == (-(NearestSection(d) \div SectionWidth)) % sections

\* C12: with reference angle rho, a release after a move to pointer angle
\* theta and a release directly after a start at pointer angle theta (on a
\* wheel already at theta - rho) give the same snapped rotation and the same
\* index: both are the release of theta - rho.
C12_RoundTrip ==
    [][(event'.kind = "end" /\ Engaged
          /\ (event.kind = "start" \/ (event.kind = "move" /\ event.engaged))) =>
          /\ rotation' = NearestSection(event.angle - startAngleRef)
          /\ event'.calls =
                 (IF onValueChange
                    THEN <<IndexOf(event.angle - startAngleRef)>> ELSE <<>>)]_vars

\* C12 witness: on the 12-section wheel resting at 30, a start at pointer
\* angle 44 (reference angle 14) is released with no move and rests at 30,
\* as a drag with reference angle 14 moved to 44 does.
C12_Witness ==
    /\ Released /\ ~event.moved /\ sections = 12
    /\ startAngleRef = 14 /\ event.from = 30 /\ rotation = 30
    /\ event.calls = <<11>>

\* C13: a start met while Idle stores pointerAngle - currentRotation in the
\* reference angle, sets isDragging, keeps the rotation and emits nothing; a
\* move that follows at the same pointer angle leaves the rotation as it was
\* before the start.
C13_StartKeepsRotation ==
    [][/\ (event'.kind = "start" /\ ~isDragging) =>
             /\ startAngleRef' = event'.angle - currentRotationRef
             /\ isDragging'
             /\ UNCHANGED <<rotation, currentRotationRef>>
             /\ event'.calls = <<>>
       /\ (event.kind = "start" /\ event'.kind = "move"
             /\ event'.angle = event.angle) =>
             /\ rotation' = event.from
             /\ currentRotationRef' = event.from]_vars

\* C13 witness: a wheel resting at 30, neither 0 nor its initial rotation, is
\* started at pointer angle 44 and moved at that same angle: it stays at 30.
C13_Witness ==
    /\ event.kind = "move" /\ event.engaged /\ ~event.moved /\ sections = 12
    /\ event.angle = 44 /\ startAngleRef = 14 /\ rotation = 30

\* C14: while Engaged a move sets the rotation to pointerAngle -
\* referenceAngle and changes neither isDragging nor the reference angle and
\* emits nothing; the first move of a drag gives rotationAtStart + (angle -
\* angleAtStart) and each later move changes the rotation by the change of
\* the pointer angle, so the rotation depends on the latest move only.
C14_MoveFollowsPointer ==
    [][/\ (event'.kind = "move" /\ Engaged) =>
             /\ rotation' = event'.angle - startAngleRef
             /\ currentRotationRef' = rotation'
             /\ UNCHANGED <<isDragging, startAngleRef>>
             /\ event'.calls = <<>>
       /\ (event'.kind = "move" /\ event.kind = "start") =>
             rotation' = event.from + (event'.angle - event.angle)
       /\ (event'.kind = "move" /\ event.kind = "move" /\ event.engaged) =>
             rotation' = rotation + (event'.angle - event.angle)]_vars

\* C14 witness: a second move of one drag has set the rotation.
C14_Witness ==
    /\ event.kind = "move" /\ event.engaged /\ event.moved
    /\ rotation = event.angle - startAngleRef /\ rotation # event.from
    /\ isDragging

C16_RestartOverwritesReference ==
    [][/\ (Engaged /\ event'.kind = "start") =>
             /\ startAngleRef' = event'.angle - currentRotationRef
             /\ UNCHANGED <<rotation, currentRotationRef, isDragging, listeners>>
             /\ Len(listeners') = 1
             /\ event'.calls = <<>>
       /\ (event.kind = "start" /\ event.engaged /\ event'.kind = "end") =>
             /\ ~isDragging' /\ listeners' = <<>>
             /\ rotation' = NearestSection(rotation)
             /\ Len(event'.calls) = (IF onValueChange THEN 1 ELSE 0)]_vars

\* C16 witness: a start met in the middle of a drag that had moved the wheel.
C16_Witness ==
    /\ event.kind = "start" /\ event.engaged /\ event.moved
    /\ Len(listeners) = 1 /\ isDragging
    /\ rotation # 0 /\ startAngleRef = event.angle - rotation

\* C17: a start or move event met while the container is not attached takes
\* the pointer angle as 0: the start stores -currentRotation as the reference
\* angle, the move sets the rotation to -startAngleRef, and the release that
\* follows snaps and emits an index in [0, sections).
C17_DetachedPointerIsZero ==
    [][/\ (event'.kind = "start" /\ ~event'.attached) =>
             (event'.angle = 0 /\ startAngleRef' = -currentRotationRef /\ isDragging')
       /\ (event'.kind = "move" /\ Engaged /\ ~event'.attached) =>
             (event'.angle = 0 /\ rotation' = -startAngleRef /\ isDragging')
       /\ (event.kind \in {"start", "move"} /\ event.engaged /\ ~event.attached
             /\ Engaged /\ event'.kind = "end") =>
             /\ ~isDragging' /\ rotation' % SectionWidth = 0
             /\ Len(event'.calls) = (IF onValueChange THEN 1 ELSE 0)
             /\ \A i \in DOMAIN event'.calls :
                    event'.calls[i] \in 0..(sections - 1)]_vars

\* C17 witness: a move met while the container is not attached, in a drag
\* whose reference angle is not 0.
C17_Witness ==
    /\ event.kind = "move" /\ event.engaged /\ ~event.attached
    /\ startAngleRef # 0 /\ rotation = -startAngleRef
    /\ rotation % SectionWidth # 0

\* C18: the rotation is kept as it is, not reduced modulo 360: a move stores
\* pointerAngle - startAngleRef, a release stores the nearest section of the
\* rotation it met, more than a turn away from 0 when that rotation was, and
\* the index emitted is in [0, sections).
C18_RotationNotReduced ==
    /\ (event.kind = "move" /\ event.engaged) =>
           rotation = event.angle - startAngleRef
    /\ Released =>
           /\ rotation = NearestSection(event.from)
           /\ (event.from > 360 => rotation >= 360)
           /\ (event.from < -360 => rotation <= -360)
           /\ \A i \in DOMAIN event.calls : event.calls[i] \in 0..(sections - 1)

\* C18 witness: repeated drags in the same direction leave the wheel at rest
\* more than a full turn from 0, with an index emitted.
C18_Witness ==
    /\ Released /\ rotation > 360 /\ event.from > 360
    /\ Len(event.calls) = 1 /\ event.calls[1] \in 0..(sections - 1)

\* C19: an engagement emits at most once: onValueChange is called at most
\* once in a step and only in the step that ends an engagement (isDragging
\* goes from true to false), and isDragging goes from false to true only in
\* a start event; so the calls never outnumber the starts that entered
\* Engaged, also when a second end event follows the first at once.
C19_OneEmissionPerEngagement ==
    [][/\ (event'.calls # <<>>) =>
             (Len(event'.calls) = 1 /\ isDragging /\ ~isDragging')
       /\ (~isDragging /\ isDragging') => event'.kind = "start"]_vars

C22_IndexPeriodic ==
    (Released /\ onValueChange) =>
        /\ event.calls = <<(-((rotation % 360) \div SectionWidth)) % sections>>
        /\ \A k \in (-MaxTurns)..MaxTurns :
               sectionIndex(rotation + 360 * k) = event.calls[1]

\* C22 witness: a release at least a full turn from 0 and not on a whole
\* turn emits the index of the rotation one turn less.
C22_Witness ==
    /\ Released /\ onValueChange /\ sections = 12
    /\ rotation >= 360 /\ rotation % 360 # 0
    /\ event.calls = <<sectionIndex(rotation - 360)>>

\* C23: a release halfway between two sections, at (j + 1/2) * (360/n),
\* snaps to (j + 1) * (360/n), the larger rotation, for j of either sign;
\* with n = 12 a release at 15 snaps to 30 and emits 11, and a release at
\* -15 snaps to 0 and emits 0.
C23_TiesSnapUp ==
    (Released /\ 2 * (event.from % SectionWidth) = SectionWidth) =>
        /\ 2 * (rotation - event.from) = SectionWidth
        /\ rotation % SectionWidth = 0
        /\ (sections = 12 /\ event.from = 15) =>
               (rotation = 30 /\ (onValueChange => event.calls = <<11>>))
        /\ (sections = 12 /\ event.from = -15) =>
               (rotation = 0 /\ (onValueChange => event.calls = <<0>>))

\* C23 witness: the 12-section wheel released at -15 rests at 0 and emits 0.
C23_Witness ==
    /\ Released /\ sections = 12 /\ event.from = -15
    /\ rotation = 0 /\ event.calls = <<0>>

\* C24: maskIndex stays in [0, 5); next sets it to (i + 1) mod 5 and previous
\* to (i - 1 + 5) mod 5, each undoes the other, five nexts restore it, the
\* image shown is the one selected, and neither changes the rotation,
\* isDragging or activeNoteIndex.
C24_MaskIndexCycles ==
    /\ maskIndex \in 0..(MASK_COUNT - 1)
    /\ [][ /\ maskIndex' \in 0..4
           /\ currentImage(maskIndex') = maskIndex'
           /\ prevMask(nextMask(maskIndex')) = maskIndex'
           /\ nextMask(prevMask(maskIndex')) = maskIndex'
           /\ nextMask(nextMask(nextMask(nextMask(nextMask(maskIndex'))))) = maskIndex'
           /\ (event'.kind = "nextMask") =>
                 /\ maskIndex' = (maskIndex + 1) % 5
                 /\ UNCHANGED <<rotation, currentRotationRef, isDragging,
                                activeNoteIndex>>
           /\ (event'.kind = "prevMask") =>
                 /\ maskIndex' = (maskIndex + 4) % 5
                 /\ UNCHANGED <<rotation, currentRotationRef, isDragging,
                                activeNoteIndex>>
           /\ (event'.kind \notin {"nextMask", "prevMask"}) =>
                 UNCHANGED maskIndex]_vars

\* C24 witness: previous pressed on the first mask in the middle of a drag,
\* after a release that selected another note: the last mask is shown.
C24_Witness ==
    /\ hosted /\ event.kind = "prevMask" /\ maskIndex = 4
    /\ isDragging /\ event.moved /\ activeNoteIndex # 0

\* C25: after every handler the rotation state equals currentRotationRef,
\* and a step changes both or neither.
C25_StateMatchesRef ==
    /\ rotation = currentRotationRef
    /\ [][ /\ rotation' = currentRotationRef'
           /\ (rotation' = rotation) <=> (currentRotationRef' = currentRotationRef)]_vars

\* C25 witness: a drag that moved the wheel off a section is released and
\* state and ref hold the same snapped rotation.
C25_Witness ==
    /\ Released /\ event.moved /\ event.from # 0
    /\ rotation # event.from /\ rotation = currentRotationRef

====
